---------------------------- MODULE Spec2Model ----------------------------
(***************************************************************************)
(* A model of fake_server.py: four quiz pages (pdf, image, audio, puzzle)  *)
(* and the /fake-submit grader.                                            *)
(*                                                                         *)
(* Representation.  A Python str whose characters the code inspects (a     *)
(* url, an answer, a page, a JSON text) is a sequence of one-character     *)
(* strings; the grave accent, which a TLA+ string cannot hold, is written  *)
(* "GRAVE".  Bytes are sequences of 0..255.  Request dictionary keys and   *)
(* the fixed reason texts of the grader are TLA+ strings.  A JSON / Python *)
(* value is a record tagged by t: null (None), bool, int, float, str,      *)
(* list, dict.                                                             *)
(* A float is a decimal fixed-point record: whole part and FracDigits      *)
(* fractional digits (truncated), or nan / inf / big (a finite or          *)
(* overflowed magnitude of more than MaxWholeDigits digits).               *)
(***************************************************************************)
EXTENDS Integers, Sequences, FiniteSets, TLC

VARIABLES
  globals,   \* the module-level answer constants, as the running process holds them
  req,       \* the request being answered: method, path, body
  resp,      \* the response to req
  chainUrl,  \* the chain client's next stage url (a JSON value: str or null)
  graded     \* the stages the chain client has passed, in order

vars == <<globals, req, resp, chainUrl, graded>>

---------------------------------------------------------------------------
(* Bounds of the model *)

\* fractional decimal digits kept by the fixed-point floats (1e-6 needs 6)
FracDigits == 7
\* magnitudes of more digits than this are the float "big"
MaxWholeDigits == 6

---------------------------------------------------------------------------
(* Python values *)

None == [t |-> "null"]
PyBool(b) == [t |-> "bool", v |-> b]
PyInt(n) == [t |-> "int", v |-> n]
PyFloat(x) == [t |-> "float", v |-> x]
PyStr(s) == [t |-> "str", v |-> s]
PyList(xs) == [t |-> "list", v |-> xs]
PyDict(d) == [t |-> "dict", v |-> d]

\* 10^n
RECURSIVE Pow10(_)
Pow10(n) == IF n <= 0 THEN 1 ELSE 10 * Pow10(n - 1)

FracUnits == Pow10(FracDigits)

Fin(neg, w, f) == [k |-> "fin", neg |-> neg, w |-> w, f |-> f]
Big(neg) == [k |-> "big", neg |-> neg]
Inf(neg) == [k |-> "inf", neg |-> neg]
NaN == [k |-> "nan"]

\* bool(v): Python truthiness, as `not email` uses it
Truthy(v) ==
  CASE v.t = "null" -> FALSE
    [] v.t = "bool" -> v.v
    [] v.t = "int" -> v.v # 0
    [] v.t = "float" -> ~(v.v.k = "fin" /\ v.v.w = 0 /\ v.v.f = 0)
    [] v.t = "str" -> Len(v.v) > 0
    [] v.t = "list" -> Len(v.v) > 0
    [] v.t = "dict" -> DOMAIN v.v # {}

\* dict.get(key): the value, or None when the key is absent
Get(data, key) == IF key \in DOMAIN data.v THEN data.v[key] ELSE None

\* str.endswith(suffix)
endswith(s, suffix) ==
  /\ Len(s) >= Len(suffix)
  /\ SubSeq(s, Len(s) - Len(suffix) + 1, Len(s)) = suffix

---------------------------------------------------------------------------
(* float(): the conversions the grader relies on *)

Digits == <<"0", "1", "2", "3", "4", "5", "6", "7", "8", "9">>
IsDigit(c) == \E i \in 1..10 : Digits[i] = c
DigitVal(c) == (CHOOSE i \in 1..10 : Digits[i] = c) - 1

\* str.strip() removes these
Whitespace == {" ", "\t", "\n", "\r", "\f"}

RECURSIVE LStrip(_)
LStrip(s) == IF s # << >> /\ Head(s) \in Whitespace THEN LStrip(Tail(s)) ELSE s

RECURSIVE RStrip(_)
RStrip(s) ==
  IF s # << >> /\ s[Len(s)] \in Whitespace THEN RStrip(SubSeq(s, 1, Len(s) - 1)) ELSE s

Strip(s) == RStrip(LStrip(s))

UpperCase == <<"A","B","C","D","E","F","G","H","I","J","K","L","M",
               "N","O","P","Q","R","S","T","U","V","W","X","Y","Z">>
LowerCase == <<"a","b","c","d","e","f","g","h","i","j","k","l","m",
               "n","o","p","q","r","s","t","u","v","w","x","y","z">>
LowerChar(c) ==
  IF \E i \in 1..26 : UpperCase[i] = c
  THEN LowerCase[CHOOSE i \in 1..26 : UpperCase[i] = c]
  ELSE c
Lower(s) == SubSeq([i \in 1..Len(s) |-> LowerChar(s[i])], 1, Len(s))

\* digitpart ::= digit (["_"] digit)* read from position i; ds = << >> when there is none
RECURSIVE DigitRun(_, _, _)
DigitRun(s, i, acc) ==
  IF i <= Len(s) /\ IsDigit(s[i])
  THEN DigitRun(s, i + 1, Append(acc, DigitVal(s[i])))
  ELSE IF acc # << >> /\ i + 1 <= Len(s) /\ s[i] = "_" /\ IsDigit(s[i + 1])
  THEN DigitRun(s, i + 2, Append(acc, DigitVal(s[i + 1])))
  ELSE [ds |-> acc, next |-> i]

DigitAt(D, i) == IF i >= 1 /\ i <= Len(D) THEN D[i] ELSE 0

\* the number written by digits lo..hi of D (digits outside D are 0)
RECURSIVE Horner(_, _, _, _)
Horner(D, lo, hi, acc) ==
  IF lo > hi THEN acc ELSE Horner(D, lo + 1, hi, 10 * acc + DigitAt(D, lo))

RECURSIVE LeadingZeros(_, _)
LeadingZeros(D, i) == IF i <= Len(D) /\ D[i] = 0 THEN LeadingZeros(D, i + 1) ELSE i - 1

\* a decimal exponent, clamped: anything beyond +-1000 is out of a double's range anyway
ExpValue(ds) ==
  LET z == LeadingZeros(ds, 1)
  IN IF Len(ds) - z > 3 THEN 1000 ELSE Horner(ds, z + 1, Len(ds), 0)

\* the digits D with the decimal point after the first p of them, as a float
Decimal(neg, D, p) ==
  LET z == LeadingZeros(D, 1)
  IN IF z = Len(D) THEN Fin(neg, 0, 0)
     ELSE IF p - z > MaxWholeDigits THEN Big(neg)
     ELSE Fin(neg, Horner(D, 1, p, 0), Horner(D, p + 1, p + FracDigits, 0))

\* floatnumber ::= ([digitpart] "." digitpart | digitpart ["."]) [("e"|"E") ["+"|"-"] digitpart]
ParseNumber(neg, s) ==
  LET ip == DigitRun(s, 1, << >>)
      hasDot == ip.next <= Len(s) /\ s[ip.next] = "."
      fp == IF hasDot THEN DigitRun(s, ip.next + 1, << >>) ELSE [ds |-> << >>, next |-> ip.next]
      j == fp.next
      hasExp == j <= Len(s) /\ s[j] \in {"e", "E"}
      hasESign == hasExp /\ j + 1 <= Len(s) /\ s[j + 1] \in {"+", "-"}
      eneg == hasESign /\ s[j + 1] = "-"
      ep == IF hasExp THEN DigitRun(s, IF hasESign THEN j + 2 ELSE j + 1, << >>)
            ELSE [ds |-> << >>, next |-> j]
      e == IF eneg THEN 0 - ExpValue(ep.ds) ELSE ExpValue(ep.ds)
      ok == /\ ip.ds # << >> \/ (hasDot /\ fp.ds # << >>)
            /\ hasExp => ep.ds # << >>
            /\ ep.next = Len(s) + 1
  IN IF ok THEN [ok |-> TRUE, val |-> Decimal(neg, ip.ds \o fp.ds, Len(ip.ds) + e)]
     ELSE [ok |-> FALSE]

\* float(str): [ok |-> TRUE, val |-> x], or [ok |-> FALSE] for a ValueError
float_of_str(text) ==
  LET s == Lower(Strip(text))
      signed == s # << >> /\ Head(s) \in {"+", "-"}
      neg == signed /\ Head(s) = "-"
      body == IF signed THEN Tail(s) ELSE s
  IN IF body \in {<<"i","n","f">>, <<"i","n","f","i","n","i","t","y">>} THEN [ok |-> TRUE, val |-> Inf(neg)]
     ELSE IF body = <<"n","a","n">> THEN [ok |-> TRUE, val |-> NaN]
     ELSE ParseNumber(neg, body)

\* float(int)
float_of_int(n) ==
  LET m == IF n < 0 THEN 0 - n ELSE n
  IN IF m >= Pow10(MaxWholeDigits) THEN Big(n < 0) ELSE Fin(n < 0, m, 0)

\* float(answer): [ok |-> TRUE, val] or [ok |-> FALSE] when float() raises
\* (ValueError for a str, TypeError for a list, a dict or None)
float(answer) ==
  CASE answer.t = "bool" -> [ok |-> TRUE, val |-> Fin(FALSE, IF answer.v THEN 1 ELSE 0, 0)]
    [] answer.t = "int" -> [ok |-> TRUE, val |-> float_of_int(answer.v)]
    [] answer.t = "float" -> [ok |-> TRUE, val |-> answer.v]
    [] answer.t = "str" -> float_of_str(answer.v)
    [] OTHER -> [ok |-> FALSE]

\* faulty variant of AbsDiffBelowTol: ans_num == expected, no tolerance
AbsDiffBelowTol_Exact(x, expected) ==
  x.k = "fin" /\ ~x.neg /\ x.w = expected /\ x.f = 0

\* abs(ans_num - expected) < 1e-6, for an integer expected
AbsDiffBelowTol(x, expected) ==
  /\ x.k = "fin"
  /\ LET zero == x.w = 0 /\ x.f = 0
         \* floor form: x = W + Fr / FracUnits with 0 <= Fr < FracUnits
         W == IF ~x.neg \/ zero THEN x.w ELSE IF x.f = 0 THEN 0 - x.w ELSE 0 - x.w - 1
         Fr == IF ~x.neg \/ x.f = 0 THEN x.f ELSE FracUnits - x.f
         tol == FracUnits \div Pow10(6)
     IN \/ W - expected = 0 /\ Fr < tol
        \/ W - expected = -1 /\ Fr > FracUnits - tol

---------------------------------------------------------------------------
(* Config / expected answers *)

PDF_SUM_ANSWER == 10 + 20 + 30
IMAGE_OCR_ANSWER == 777
AUDIO_ANSWER == 3 + 4 + 5
PUZZLE_ANSWER == 42

\* the module globals as the process holds them after import
ModuleGlobals ==
  [PDF_SUM_ANSWER |-> PDF_SUM_ANSWER, IMAGE_OCR_ANSWER |-> IMAGE_OCR_ANSWER,
   AUDIO_ANSWER |-> AUDIO_ANSWER, PUZZLE_ANSWER |-> PUZZLE_ANSWER]

---------------------------------------------------------------------------
(* Responses *)

JSONResponse(content, status_code) == [status |-> status_code, kind |-> "json", body |-> content]
HTMLResponse(html) == [status |-> 200, kind |-> "html", body |-> html]
\* raise HTTPException(status_code, detail): FastAPI answers with that status
HTTPException(status_code, detail) == [status |-> status_code, kind |-> "error", body |-> detail]
\* an exception no handler catches: the server answers 500
UnhandledError(exc) == [status |-> 500, kind |-> "error", body |-> exc]

---------------------------------------------------------------------------
(* /fake-submit *)

\* a body json() cannot parse
Malformed == [t |-> "bad"]

\* faulty variant of MissingFields: only url is required
MissingFields_UrlOnly(email, secret, url) == ~Truthy(url)

\* the condition  not email or not secret or not url
MissingFields(email, secret, url) == ~Truthy(email) \/ ~Truthy(secret) \/ ~Truthy(url)

\* faulty variant of Dispatch: the stage path anywhere in url, not at its end
Dispatch_Contains(g, url) ==
  LET in(sub) == \E i \in 1..Len(url) : i + Len(sub) - 1 <= Len(url)
                                        /\ SubSeq(url, i, i + Len(sub) - 1) = sub
  IN IF in(<<"/","p","d","f","-","d","e","m","o">>)
     THEN [stage |-> "pdf", expected |-> g.PDF_SUM_ANSWER, next_url |-> PyStr(<<"/","i","m","a","g","e","-","d","e","m","o">>)]
     ELSE IF in(<<"/","i","m","a","g","e","-","d","e","m","o">>)
     THEN [stage |-> "image", expected |-> g.IMAGE_OCR_ANSWER, next_url |-> PyStr(<<"/","a","u","d","i","o","-","d","e","m","o">>)]
     ELSE IF in(<<"/","a","u","d","i","o","-","d","e","m","o">>)
     THEN [stage |-> "audio", expected |-> g.AUDIO_ANSWER, next_url |-> PyStr(<<"/","p","u","z","z","l","e","-","d","e","m","o">>)]
     ELSE IF in(<<"/","p","u","z","z","l","e","-","d","e","m","o">>)
     THEN [stage |-> "puzzle", expected |-> g.PUZZLE_ANSWER, next_url |-> None]
     ELSE [stage |-> "unknown"]

\* faulty variant of Dispatch: the pdf stage names itself as its successor
Dispatch_NoSuccessor(g, url) ==
  IF endswith(url, <<"/","p","d","f","-","d","e","m","o">>)
  THEN [stage |-> "pdf", expected |-> g.PDF_SUM_ANSWER, next_url |-> PyStr(<<"/","p","d","f","-","d","e","m","o">>)]
  ELSE IF endswith(url, <<"/","i","m","a","g","e","-","d","e","m","o">>)
  THEN [stage |-> "image", expected |-> g.IMAGE_OCR_ANSWER, next_url |-> PyStr(<<"/","a","u","d","i","o","-","d","e","m","o">>)]
  ELSE IF endswith(url, <<"/","a","u","d","i","o","-","d","e","m","o">>)
  THEN [stage |-> "audio", expected |-> g.AUDIO_ANSWER, next_url |-> PyStr(<<"/","p","u","z","z","l","e","-","d","e","m","o">>)]
  ELSE IF endswith(url, <<"/","p","u","z","z","l","e","-","d","e","m","o">>)
  THEN [stage |-> "puzzle", expected |-> g.PUZZLE_ANSWER, next_url |-> None]
  ELSE [stage |-> "unknown"]

\* the if / elif chain on url.endswith: the branch taken, with expected and next_url
Dispatch(g, url) ==
  IF endswith(url, <<"/","p","d","f","-","d","e","m","o">>)
  THEN [stage |-> "pdf", expected |-> g.PDF_SUM_ANSWER, next_url |-> PyStr(<<"/","i","m","a","g","e","-","d","e","m","o">>)]
  ELSE IF endswith(url, <<"/","i","m","a","g","e","-","d","e","m","o">>)
  THEN [stage |-> "image", expected |-> g.IMAGE_OCR_ANSWER, next_url |-> PyStr(<<"/","a","u","d","i","o","-","d","e","m","o">>)]
  ELSE IF endswith(url, <<"/","a","u","d","i","o","-","d","e","m","o">>)
  THEN [stage |-> "audio", expected |-> g.AUDIO_ANSWER, next_url |-> PyStr(<<"/","p","u","z","z","l","e","-","d","e","m","o">>)]
  ELSE IF endswith(url, <<"/","p","u","z","z","l","e","-","d","e","m","o">>)
  THEN [stage |-> "puzzle", expected |-> g.PUZZLE_ANSWER, next_url |-> None]
  ELSE [stage |-> "unknown"]

\* ans_num: float(answer) if answer is not None else None, and None when float() raises
AnsNum(answer) ==
  IF answer = None THEN [ok |-> FALSE]
  ELSE float(answer)

\* faulty variant of NextUrlField: the path without the base URL
NextUrlField_Relative(next_url) ==
  IF Truthy(next_url) THEN next_url ELSE None

\* f"http://localhost:8001{next_url}" if next_url else None
NextUrlField(next_url) ==
  IF Truthy(next_url) THEN PyStr(<<"h","t","t","p",":","/","/","l","o","c","a","l","h","o","s","t",":","8","0","0","1">> \o next_url.v) ELSE None

\* faulty variant of Verdict: a reason of its own for an answer float() rejects
Verdict_NotNumeric(ans_num, expected, next_url) ==
  IF ~ans_num.ok
  THEN JSONResponse([correct |-> FALSE, reason |-> "not numeric",
                     url |-> NextUrlField(next_url)], 200)
  ELSE IF AbsDiffBelowTol(ans_num.val, expected)
  THEN JSONResponse([correct |-> TRUE, reason |-> "", url |-> NextUrlField(next_url)], 200)
  ELSE JSONResponse([correct |-> FALSE, reason |-> "Wrong answer",
                     url |-> NextUrlField(next_url)], 200)

\* the final if / else
Verdict(ans_num, expected, next_url) ==
  IF ans_num.ok /\ AbsDiffBelowTol(ans_num.val, expected)
  THEN JSONResponse([correct |-> TRUE, reason |-> "", url |-> NextUrlField(next_url)], 200)
  ELSE JSONResponse([correct |-> FALSE, reason |-> "Wrong answer",
                     url |-> NextUrlField(next_url)], 200)

\* the response of fake_submit to a request body, with the globals g
fake_submit_response(g, body) ==
  IF body = Malformed THEN HTTPException(400, "invalid json")
  ELSE IF body.t # "dict" THEN UnhandledError("AttributeError")
  ELSE
    LET data == body
        email == Get(data, "email")
        secret == Get(data, "secret")
        url == Get(data, "url")
        answer == Get(data, "answer")
    IN IF MissingFields(email, secret, url)
       THEN JSONResponse([correct |-> FALSE, reason |-> "missing fields"], 200)
       ELSE IF url.t # "str" THEN UnhandledError("AttributeError")
       ELSE LET d == Dispatch(g, url.v)
            IN IF d.stage = "unknown"
               THEN JSONResponse([correct |-> FALSE, reason |-> "unknown url", url |-> None], 200)
               ELSE Verdict(AnsNum(answer), d.expected, d.next_url)

\* faulty variant of fake_submit: a correct submission spoils the pdf answer
fake_submit_OneShot(g, body) ==
  LET r == fake_submit_response(g, body)
  IN [response |-> r,
      globals |-> IF r.kind = "json" /\ r.body.correct
                  THEN [g EXCEPT !.PDF_SUM_ANSWER = 0 - 1] ELSE g]

\* fake_submit: its response, and the globals it leaves (it assigns none)
fake_submit(g, body) == [response |-> fake_submit_response(g, body), globals |-> g]

---------------------------------------------------------------------------
(* The requests of the model *)

Absent == [t |-> "absent"]

\* a JSON object with the given fields; an Absent field has no key
Submission(email, secret, url, answer) ==
  LET all == [email |-> email, secret |-> secret, url |-> url, answer |-> answer]
      keys == {k \in DOMAIN all : all[k] # Absent}
  IN PyDict([k \in keys |-> all[k]])

PdfUrl == <<"h","t","t","p",":","/","/","l","o","c","a","l","h","o","s","t",":","8","0","0","1","/","p",
    "d","f","-","d","e","m","o">>
ImageUrl == <<"h","t","t","p",":","/","/","l","o","c","a","l","h","o","s","t",":","8","0","0","1","/","i",
    "m","a","g","e","-","d","e","m","o">>
AudioUrl == <<"h","t","t","p",":","/","/","l","o","c","a","l","h","o","s","t",":","8","0","0","1","/","a",
    "u","d","i","o","-","d","e","m","o">>
PuzzleUrl == <<"h","t","t","p",":","/","/","l","o","c","a","l","h","o","s","t",":","8","0","0","1","/","p",
    "u","z","z","l","e","-","d","e","m","o">>

UrlTexts ==
  { PdfUrl, ImageUrl, AudioUrl, PuzzleUrl,
    <<"/","p","d","f","-","d","e","m","o">>,
    <<"h","t","t","p","s",":","/","/","e","x","a","m","p","l","e",".","c","o","m","/","n","o","n",
      "s","e","n","s","e">>,
    <<"h","t","t","p",":","/","/","l","o","c","a","l","h","o","s","t",":","8","0","0","1","/","p",
      "d","f","-","d","e","m","o","/">>,
    <<"p","d","f","-","d","e","m","o">>,
    <<"h","t","t","p",":","/","/","l","o","c","a","l","h","o","s","t",":","8","0","0","1","/","i",
      "m","a","g","e","-","d","e","m","o","/","a","u","d","i","o","-","d","e","m","o">>,
    <<"/","P","U","Z","Z","L","E","-","D","E","M","O">> }

\* url values that are not a non-empty str
OddUrls == { Absent, None, PyStr(<< >>), PyInt(5), PyInt(0), PyList(<<PyStr(<<"/","p","d","f","-","d","e","m","o">>)>>) }

\* answers tried on every url
CoreAnswers ==
  { PyStr(<<"6","0">>), PyStr(<<"7","7","7">>), PyStr(<<"1","2">>), PyStr(<<"4","2">>), PyStr(<<"5","9">>),
    PyStr(<<"a","b","c">>), Absent, PyInt(60) }

\* answers tried on the pdf stage, whose expected value is 60
PdfAnswerTexts ==
  { <<"6","0",".","0">>, <<" ","6","0","\n">>, <<"6","e","1">>, <<"6","_","0">>, <<"+","6","0">>, <<"6","0","0","0","e","-","2">>, <<".","6","E","2">>, <<"0","6","0">>, <<"6","0",".">>,
    <<"6","0",".","0","0","0","0","0","0","1">>, <<"5","9",".","9","9","9","9","9","9","9">>, <<"6","0",".","0","0","0","0","1">>, <<"5","9",".","9","9","9","9">>, <<"-","6","0">>, <<"6","1">>,
    << >>, <<"n","a","n">>, <<"I","n","f","i","n","i","t","y">>, <<"1","e","3","0">>, <<"6"," ","0">>, <<"0","x","3","c">>, <<"6","_">>, <<"6","e">>, <<"s","i","x","t","y">> }

PdfAnswers ==
  {PyStr(a) : a \in PdfAnswerTexts}
  \cup { None, PyInt(59), PyFloat(Fin(FALSE, 60, 0)), PyFloat(Fin(FALSE, 60, 5)),
         PyFloat(NaN), PyFloat(Inf(FALSE)), PyBool(TRUE), PyList(<<PyInt(60)>>),
         PyDict([value |-> PyInt(60)]), PyInt(2000000) }

\* further <<url, answer>> pairs of the other stages
StageAnswers ==
  { <<ImageUrl, PyInt(777)>>, <<ImageUrl, PyStr(<<"7",".","7","7","e","2">>)>>, <<ImageUrl, PyStr(<<"7","7","6",".","9","9","9","9","9","9","9">>)>>,
    <<ImageUrl, PyInt(778)>>, <<ImageUrl, None>>,
    <<AudioUrl, PyFloat(Fin(FALSE, 12, 0))>>, <<AudioUrl, PyStr(<<".","1","2","E","2">>)>>,
    <<AudioUrl, PyStr(<<"1","2",".","5">>)>>, <<AudioUrl, PyStr(<<"t","w","e","l","v","e">>)>>,
    <<PuzzleUrl, PyInt(42)>>, <<PuzzleUrl, PyStr(<<"+","4","2">>)>>, <<PuzzleUrl, PyStr(<<"4","2","0","0","e","-","2">>)>>,
    <<PuzzleUrl, PyStr(<<"n","a","n">>)>>, <<PuzzleUrl, None>>, <<PuzzleUrl, PyInt(41)>>,
    <<PuzzleUrl, PyBool(TRUE)>> }

GoodEmail == PyStr(<<"a","@","b",".","c">>)
GoodSecret == PyStr(<<"s","3","c","r","e","t">>)

\* (email, secret) pairs with a field absent, empty, null, or of another type
OddIdentities ==
  { <<Absent, GoodSecret>>, <<GoodEmail, Absent>>, <<Absent, Absent>>,
    <<PyStr(<< >>), GoodSecret>>, <<GoodEmail, None>>, <<PyInt(1), PyList(<<PyInt(1)>>)>>,
    <<GoodEmail, PyStr(<<"x">>)>> }

Bodies ==
  {Submission(GoodEmail, GoodSecret, PyStr(u), a) : u \in UrlTexts, a \in CoreAnswers}
  \cup {Submission(GoodEmail, GoodSecret, PyStr(PdfUrl), a) : a \in PdfAnswers}
  \cup {Submission(GoodEmail, GoodSecret, PyStr(p[1]), p[2]) : p \in StageAnswers}
  \cup {Submission(id[1], id[2], u, a) :
          id \in OddIdentities, u \in {PyStr(PdfUrl), PyStr(<<"h","t","t","p","s",":","/","/","e","x","a","m","p","l","e",".","c","o","m","/","n",
            "o","n","s","e","n","s","e">>)},
          a \in {PyStr(<<"6","0">>), Absent}}
  \cup {Submission(GoodEmail, GoodSecret, u, a) : u \in OddUrls, a \in {PyStr(<<"6","0">>), Absent}}
  \cup {Malformed, None, PyInt(60), PyStr(<<"6","0">>), PyList(<<PyStr(PdfUrl), PyInt(60)>>),
         PyBool(TRUE)}

---------------------------------------------------------------------------
(* str.encode("utf-8"), base64, json.dumps: the encodings of the pages *)

\* the printable ASCII characters, codes 32..126
Ascii == <<" ","!","\"","#","$","%","&","'","(",")","*","+",",","-",".","/","0","1","2","3","4","5","6",
    "7","8","9",":",";","<","=",">","?","@","A","B","C","D","E","F","G","H","I","J","K","L","M",
    "N","O","P","Q","R","S","T","U","V","W","X","Y","Z","[","\\","]","^","_","GRAVE","a","b","c",
    "d","e","f","g","h","i","j","k","l","m","n","o","p","q","r","s","t","u","v","w","x","y","z",
    "{","|","}","~">>

Ord(c) == IF c = "\n" THEN 10 ELSE 31 + (CHOOSE i \in 1..Len(Ascii) : Ascii[i] = c)
Chr(b) == IF b = 10 THEN "\n" ELSE Ascii[b - 31]

\* s.encode("utf-8") of an ASCII str
encode_utf8(s) == SubSeq([i \in 1..Len(s) |-> Ord(s[i])], 1, Len(s))
\* bytes.decode("ascii")
decode_ascii(bytes) == SubSeq([i \in 1..Len(bytes) |-> Chr(bytes[i])], 1, Len(bytes))

B64Alphabet == <<"A","B","C","D","E","F","G","H","I","J","K","L","M","N","O","P","Q","R","S","T","U","V","W",
    "X","Y","Z","a","b","c","d","e","f","g","h","i","j","k","l","m","n","o","p","q","r","s","t",
    "u","v","w","x","y","z","0","1","2","3","4","5","6","7","8","9","+","/">>

ByteAt(bytes, i) == IF i <= Len(bytes) THEN bytes[i] ELSE 0

\* base64.b64encode(bytes).decode("ascii")
b64encode(bytes) ==
  LET n == Len(bytes)
      Sextet(k) ==
        LET g == (k - 1) \div 4
            j == (k - 1) % 4
            v == ByteAt(bytes, 3 * g + 1) * 65536 + ByteAt(bytes, 3 * g + 2) * 256
                   + ByteAt(bytes, 3 * g + 3)
        IN (v \div (CASE j = 0 -> 262144 [] j = 1 -> 4096 [] j = 2 -> 64 [] j = 3 -> 1)) % 64
      \* output position k stands for input byte 3g + j (j >= 1); past the end it is padding
      Pad(k) == (k - 1) % 4 >= 2 /\ 3 * ((k - 1) \div 4) + ((k - 1) % 4) > n
      m == 4 * ((n + 2) \div 3)
  IN SubSeq([k \in 1..m |-> IF Pad(k) THEN "=" ELSE B64Alphabet[Sextet(k) + 1]], 1, m)

wrap_atob(payload_str) == b64encode(encode_utf8(payload_str))

\* an ordered dict of the pages: a sequence of <<key, value>>, keys and str values as characters
Obj(members) == [t |-> "obj", v |-> members]

\* the characters json.dumps writes for one character of a string
EscapeChar(c) ==
  CASE c = "\"" -> <<"\\", "\"">>
    [] c = "\\" -> <<"\\", "\\">>
    [] c = "\n" -> <<"\\", "n">>
    [] c = "\t" -> <<"\\", "t">>
    [] OTHER -> <<c>>

\* characters lo..hi of s, escaped (by halves, to keep the recursion shallow)
RECURSIVE EscapeRange(_, _, _)
EscapeRange(s, lo, hi) ==
  IF lo > hi THEN << >>
  ELSE IF lo = hi THEN EscapeChar(s[lo])
  ELSE EscapeRange(s, lo, (lo + hi) \div 2) \o EscapeRange(s, ((lo + hi) \div 2) + 1, hi)

\* a JSON string literal
Quote(s) == <<"\"">> \o EscapeRange(s, 1, Len(s)) \o <<"\"">>

Spaces(n) == SubSeq([i \in 1..n |-> " "], 1, n)

\* str(int)
RECURSIVE NatToStr(_)
NatToStr(n) == IF n < 10 THEN <<Digits[n + 1]>> ELSE NatToStr(n \div 10) \o <<Digits[(n % 10) + 1]>>
IntToStr(n) == IF n < 0 THEN <<"-">> \o NatToStr(0 - n) ELSE NatToStr(n)

\* json.dumps(value, indent=indent) at nesting depth level
RECURSIVE json_dumps_at(_, _, _)
RECURSIVE DumpMembers(_, _, _, _)
json_dumps_at(value, indent, level) ==
  CASE value.t = "str" -> Quote(value.v)
    [] value.t = "int" -> IntToStr(value.v)
    [] value.t = "null" -> <<"n","u","l","l">>
    [] value.t = "obj" ->
         IF value.v = << >> THEN <<"{","}">>
         ELSE <<"{", "\n">> \o DumpMembers(value.v, 1, indent, level + 1)
              \o <<"\n">> \o Spaces(indent * level) \o <<"}">>
DumpMembers(members, i, indent, level) ==
  Spaces(indent * level) \o Quote(members[i][1]) \o <<":", " ">>
    \o json_dumps_at(members[i][2], indent, level)
    \o (IF i = Len(members) THEN << >>
        ELSE <<",", "\n">> \o DumpMembers(members, i + 1, indent, level))

json_dumps(value, indent) == json_dumps_at(value, indent, 0)

---------------------------------------------------------------------------
(* The client side of a page: atob and JSON.parse *)

\* the first index >= i at which pat occurs in s, or 0
Find(s, pat, i) ==
  LET hits == {k \in i..(Len(s) - Len(pat) + 1) : SubSeq(s, k, k + Len(pat) - 1) = pat}
  IN IF hits = {} THEN 0 ELSE CHOOSE k \in hits : \A m \in hits : k <= m

\* the argument of the page's atob call, between its two grave accents
AtobArgument(html) ==
  LET open == Find(html, <<"a","t","o","b","(","GRAVE">>, 1)
      from == open + 6
      close == IF open = 0 THEN 0 ELSE Find(html, <<"GRAVE">>, from)
  IN IF open = 0 \/ close = 0 THEN [ok |-> FALSE]
     ELSE [ok |-> TRUE, val |-> SubSeq(html, from, close - 1)]

B64Index(c) == (CHOOSE i \in 1..64 : B64Alphabet[i] = c) - 1
IsB64(s) ==
  /\ Len(s) % 4 = 0
  /\ \A i \in 1..Len(s) :
       \/ \E k \in 1..64 : B64Alphabet[k] = s[i]
       \/ s[i] = "=" /\ i > Len(s) - 2 /\ (i = Len(s) \/ s[i + 1] = "=")

\* base64.b64decode / atob of well-formed base64
b64decode(s) ==
  LET pad == IF Len(s) = 0 THEN 0
             ELSE IF s[Len(s)] # "=" THEN 0
             ELSE IF s[Len(s) - 1] # "=" THEN 1 ELSE 2
      Six(i) == IF s[i] = "=" THEN 0 ELSE B64Index(s[i])
      Byte(i) ==
        LET g == (i - 1) \div 3
            j == (i - 1) % 3
            v == Six(4 * g + 1) * 262144 + Six(4 * g + 2) * 4096 + Six(4 * g + 3) * 64
                   + Six(4 * g + 4)
        IN (v \div (CASE j = 0 -> 65536 [] j = 1 -> 256 [] j = 2 -> 1)) % 256
      m == 3 * (Len(s) \div 4) - pad
  IN SubSeq([i \in 1..m |-> Byte(i)], 1, m)

JsonWs == {" ", "\t", "\n", "\r"}

RECURSIVE SkipWs(_, _)
SkipWs(s, i) == IF i <= Len(s) /\ s[i] \in JsonWs THEN SkipWs(s, i + 1) ELSE i

\* a JSON string whose opening quote is at i - 1: its characters, and the index after it
ParseChars(s, i) ==
  LET \* the number of backslashes that end just before j
      Run(j) ==
        LET stops == {k \in i..(j - 1) : s[k] # "\\"}
        IN IF stops = {} THEN j - i
           ELSE j - 1 - (CHOOSE k \in stops : \A m \in stops : m <= k)
      Escaped(j) == j > i /\ s[j - 1] = "\\" /\ Run(j) % 2 = 1
      quotes == {j \in i..Len(s) : s[j] = "\"" /\ ~Escaped(j)}
  IN IF quotes = {} THEN [ok |-> FALSE]
     ELSE
       LET close == CHOOSE j \in quotes : \A m \in quotes : j <= m
           n == close - i
           \* for the character at j: <<the character it stands for, kept, valid>>
           At(j) ==
             IF Escaped(j)
             THEN <<(CASE s[j] = "n" -> "\n" [] s[j] = "t" -> "\t" [] OTHER -> s[j]), TRUE,
                    s[j] \in {"\"", "\\", "/", "n", "t"}>>
             ELSE IF s[j] = "\\" THEN <<s[j], FALSE, TRUE>>
             ELSE <<s[j], TRUE, s[j] # "\n">>
           marks == SubSeq([p \in 1..n |-> At(i + p - 1)], 1, n)
           kept == SelectSeq(marks, LAMBDA x : x[2])
       IN IF \E p \in 1..n : ~marks[p][3] THEN [ok |-> FALSE]
          ELSE [ok |-> TRUE, next |-> close + 1,
                val |-> SubSeq([p \in 1..Len(kept) |-> kept[p][1]], 1, Len(kept))]

\* JSON.parse of strings, non-negative integers, null and objects
RECURSIVE ParseValue(_, _)
RECURSIVE ParseMembers(_, _, _)
ParseValue(s, i0) ==
  LET i == SkipWs(s, i0)
  IN IF i > Len(s) THEN [ok |-> FALSE]
     ELSE IF s[i] = "\""
     THEN LET r == ParseChars(s, i + 1)
          IN IF r.ok THEN [ok |-> TRUE, val |-> PyStr(r.val), next |-> r.next] ELSE r
     ELSE IF s[i] = "{"
     THEN LET j == SkipWs(s, i + 1)
          IN IF j <= Len(s) /\ s[j] = "}" THEN [ok |-> TRUE, val |-> Obj(<< >>), next |-> j + 1]
             ELSE ParseMembers(s, j, << >>)
     ELSE IF IsDigit(s[i])
     THEN LET r == DigitRun(s, i, << >>)
          IN IF r.next # i + Len(r.ds) THEN [ok |-> FALSE]
             ELSE [ok |-> TRUE, val |-> PyInt(Horner(r.ds, 1, Len(r.ds), 0)), next |-> r.next]
     ELSE IF i + 3 <= Len(s) /\ SubSeq(s, i, i + 3) = <<"n","u","l","l">>
     THEN [ok |-> TRUE, val |-> None, next |-> i + 4]
     ELSE [ok |-> FALSE]
ParseMembers(s, i0, acc) ==
  LET i == SkipWs(s, i0)
  IN IF i > Len(s) \/ s[i] # "\"" THEN [ok |-> FALSE]
     ELSE LET k == ParseChars(s, i + 1)
          IN IF ~k.ok THEN [ok |-> FALSE]
             ELSE LET c == SkipWs(s, k.next)
                  IN IF c > Len(s) \/ s[c] # ":" THEN [ok |-> FALSE]
                     ELSE LET v == ParseValue(s, c + 1)
                          IN IF ~v.ok THEN [ok |-> FALSE]
                             ELSE LET e == SkipWs(s, v.next)
                                      members == Append(acc, <<k.val, v.val>>)
                                  IN IF e > Len(s) THEN [ok |-> FALSE]
                                     ELSE IF s[e] = "}"
                                     THEN [ok |-> TRUE, val |-> Obj(members), next |-> e + 1]
                                     ELSE IF s[e] = ","
                                     THEN ParseMembers(s, e + 1, members)
                                     ELSE [ok |-> FALSE]

JsonParse(s) ==
  LET r == ParseValue(s, 1)
  IN IF r.ok /\ SkipWs(s, r.next) = Len(s) + 1 THEN [ok |-> TRUE, val |-> r.val]
     ELSE [ok |-> FALSE]

HasKey(obj, key) == obj.t = "obj" /\ \E i \in 1..Len(obj.v) : obj.v[i][1] = key
\* obj[key], the last member of that name
Member(obj, key) ==
  obj.v[CHOOSE i \in 1..Len(obj.v) :
          obj.v[i][1] = key /\ \A j \in (i + 1)..Len(obj.v) : obj.v[j][1] # key][2]

\* what a client reads off a page: the JSON value inside atob(`...`)
DecodedInstructions(html) ==
  LET a == AtobArgument(html)
  IN IF ~a.ok \/ ~IsB64(a.val) THEN [ok |-> FALSE]
     ELSE JsonParse(decode_ascii(b64decode(a.val)))

---------------------------------------------------------------------------
(* The pages *)

LOCAL_IMAGE_PATH == <<"/","m","n","t","/","d","a","t","a","/","5","c","3","3","0","2","c","6","-","d","1","5","9",
    "-","4","e","c","e","-","b","c","3","a","-","1","b","8","3","7","d","5","d","9","5","1","6",
    ".","p","n","g">>

root ==
  HTMLResponse(<<"<","h","3",">","F","a","k","e"," ","T","D","S"," ","Q","u","i","z"," ","S","e","r","v","e",
    "r"," ","(","f","o","r"," ","l","o","c","a","l"," ","t","e","s","t","i","n","g",")","<","/",
    "h","3",">">>
               \o <<"<","u","l",">">>
               \o <<"<","l","i",">","<","a"," ","h","r","e","f","=","'","/","p","d","f","-","d","e",
                 "m","o","'",">","P","D","F"," ","S","u","m"," ","D","e","m","o","<","/","a",">",
                 "<","/","l","i",">">>
               \o <<"<","l","i",">","<","a"," ","h","r","e","f","=","'","/","i","m","a","g","e","-",
                 "d","e","m","o","'",">","I","m","a","g","e"," ","O","C","R"," ","D","e","m","o",
                 "<","/","a",">","<","/","l","i",">">>
               \o <<"<","l","i",">","<","a"," ","h","r","e","f","=","'","/","a","u","d","i","o","-",
                 "d","e","m","o","'",">","A","u","d","i","o"," ","D","e","m","o","<","/","a",">",
                 "<","/","l","i",">">>
               \o <<"<","l","i",">","<","a"," ","h","r","e","f","=","'","/","p","u","z","z","l","e",
                 "-","d","e","m","o","'",">","D","e","e","p","l","y"," ","H","i","d","d","e","n",
                 " ","P","u","z","z","l","e"," ","D","e","m","o","<","/","a",">","<","/","l","i",
                 ">">>
               \o <<"<","/","u","l",">">>)

\* the submit_payload_template of a page
PayloadTemplate(url, answer) ==
  Obj(<< <<<<"e","m","a","i","l">>, PyStr(<<"<","e","m","a","i","l",">">>)>>, <<<<"s","e","c","r","e","t">>, PyStr(<<"<","s","e","c","r","e","t",">">>)>>,
         <<<<"u","r","l">>, PyStr(url)>>, <<<<"a","n","s","w","e","r">>, PyStr(answer)>> >>)

pdf_demo_csv_text == <<"n","a","m","e",",","v","a","l","u","e","\n","A",",","1","0","\n","B",",","2","0","\n","C",
    ",","3","0","\n">>

\* the dict pdf_demo hands to json.dumps
pdf_demo_instr ==
  Obj(<< <<<<"q","u","e","s","t","i","o","n">>,
           PyStr(<<"D","o","w","n","l","o","a","d"," ","f","i","l","e","."," ","W","h","a","t"," ","i",
             "s"," ","t","h","e"," ","s","u","m"," ","o","f"," ","t","h","e"," ","'","v","a","l",
             "u","e","'"," ","c","o","l","u","m","n"," ","i","n"," ","t","h","e"," ","C","S","V",
             "?">>)>>,
         <<<<"f","i","l","e","_","d","a","t","a","_","u","r","i">>,
           PyStr(<<"d","a","t","a",":","t","e","x","t","/","c","s","v",";","b","a","s","e","6","4",",">> \o b64encode(encode_utf8(pdf_demo_csv_text)))>>,
         <<<<"s","u","b","m","i","t","_","u","r","l">>, PyStr(<<"/","f","a","k","e","-","s","u","b","m","i","t">>)>>,
         <<<<"s","u","b","m","i","t","_","p","a","y","l","o","a","d","_","t","e","m","p","l","a",
           "t","e">>,
           PayloadTemplate(<<"h","t","t","p",":","/","/","l","o","c","a","l","h","o","s","t",":","8","0","0","1",
             "/","p","d","f","-","d","e","m","o">>, <<"<","s","u","m",">">>)>> >>)

pdf_demo_s == wrap_atob(json_dumps(pdf_demo_instr, 2))

pdf_demo ==
  HTMLResponse(
    <<"\n"," "," "," "," ","<","d","i","v"," ","i","d","=","\"","r","e","s","u","l","t","\"",">",
      "<","/","d","i","v",">","\n"," "," "," "," ","<","s","c","r","i","p","t",">","\n">>
    \o <<" "," "," "," "," "," ","/","/"," ","d","e","m","o",":"," ","p","a","g","e"," ","s","h","o",
      "w","s"," ","b","a","s","e","6","4"," ","p","a","y","l","o","a","d"," ","i","n","s","i","d",
      "e"," ","a","t","o","b","(",".",".",".",")"," ","t","o"," ","m","i","m","i","c"," ","T","D",
      "S","\n">>
    \o <<" "," "," "," "," "," ","d","o","c","u","m","e","n","t",".","q","u","e","r","y","S","e","l",
      "e","c","t","o","r","(","\"","#","r","e","s","u","l","t","\"",")",".","i","n","n","e","r",
      "H","T","M","L"," ","="," ","a","t","o","b","(","GRAVE">>
    \o pdf_demo_s
    \o <<"GRAVE",")",";","\n"," "," "," "," ","<","/","s","c","r","i","p","t",">","\n"," "," "," ",
      " ">>)

\* faulty variant of image_demo_instr: another port in the template url
image_demo_instr_OtherPort ==
  Obj(<< <<<<"q","u","e","s","t","i","o","n">>,
           PyStr(<<"O","p","e","n"," ","t","h","e"," ","i","m","a","g","e"," ","a","t"," ","t","h","e",
             " ","p","r","o","v","i","d","e","d"," ","l","o","c","a","l"," ","p","a","t","h"," ",
             "a","n","d"," ","O","C","R"," ","t","o"," ","f","i","n","d"," ","t","h","e"," ","n",
             "u","m","b","e","r","."," ","P","o","s","t"," ","i","t"," ","t","o"," ","/","f","a",
             "k","e","-","s","u","b","m","i","t">>)>>,
         <<<<"i","m","a","g","e","_","p","a","t","h">>, PyStr(LOCAL_IMAGE_PATH)>>,
         <<<<"s","u","b","m","i","t","_","u","r","l">>, PyStr(<<"/","f","a","k","e","-","s","u","b","m","i","t">>)>>,
         <<<<"s","u","b","m","i","t","_","p","a","y","l","o","a","d","_","t","e","m","p","l","a",
           "t","e">>,
           PayloadTemplate(<<"h","t","t","p",":","/","/","l","o","c","a","l","h","o","s","t",":","8","0","0","0",
             "/","i","m","a","g","e","-","d","e","m","o">>, <<"<","n","u","m","b","e","r",">">>)>> >>)

\* the dict image_demo hands to json.dumps
image_demo_instr ==
  Obj(<< <<<<"q","u","e","s","t","i","o","n">>,
           PyStr(<<"O","p","e","n"," ","t","h","e"," ","i","m","a","g","e"," ","a","t"," ","t","h","e",
             " ","p","r","o","v","i","d","e","d"," ","l","o","c","a","l"," ","p","a","t","h"," ",
             "a","n","d"," ","O","C","R"," ","t","o"," ","f","i","n","d"," ","t","h","e"," ","n",
             "u","m","b","e","r","."," ","P","o","s","t"," ","i","t"," ","t","o"," ","/","f","a",
             "k","e","-","s","u","b","m","i","t">>)>>,
         <<<<"i","m","a","g","e","_","p","a","t","h">>, PyStr(LOCAL_IMAGE_PATH)>>,
         <<<<"s","u","b","m","i","t","_","u","r","l">>, PyStr(<<"/","f","a","k","e","-","s","u","b","m","i","t">>)>>,
         <<<<"s","u","b","m","i","t","_","p","a","y","l","o","a","d","_","t","e","m","p","l","a",
           "t","e">>,
           PayloadTemplate(<<"h","t","t","p",":","/","/","l","o","c","a","l","h","o","s","t",":","8","0","0","1",
             "/","i","m","a","g","e","-","d","e","m","o">>, <<"<","n","u","m","b","e","r",">">>)>> >>)

image_demo_s == wrap_atob(json_dumps(image_demo_instr, 2))

image_demo(g) ==
  HTMLResponse(
    <<"\n"," "," "," "," ","<","d","i","v"," ","i","d","=","\"","r","e","s","u","l","t","\"",">",
      "<","/","d","i","v",">","\n"," "," "," "," ","<","s","c","r","i","p","t",">","\n">>
    \o <<" "," "," "," "," "," ","d","o","c","u","m","e","n","t",".","q","u","e","r","y","S","e","l",
      "e","c","t","o","r","(","\"","#","r","e","s","u","l","t","\"",")",".","i","n","n","e","r",
      "H","T","M","L"," ","="," ","a","t","o","b","(","GRAVE">>
    \o image_demo_s
    \o <<"GRAVE",")",";","\n"," "," "," "," ","<","/","s","c","r","i","p","t",">","\n">>
    \o <<" "," "," "," ","<","p",">","N","o","t","e",":"," ","F","o","r"," ","t","h","i","s"," ","d",
      "e","m","o"," ","t","h","e"," ","e","x","p","e","c","t","e","d"," ","O","C","R"," ","r","e",
      "s","u","l","t"," ","i","s"," ","<","s","t","r","o","n","g",">">>
    \o IntToStr(g.IMAGE_OCR_ANSWER)
    \o <<"<","/","s","t","r","o","n","g",">","."," ","\n"," "," "," "," ","T","h","e"," ","i","m",
      "a","g","e"," ","p","a","t","h"," ","e","m","b","e","d","d","e","d"," ","(","l","o","c","a",
      "l",")"," ","i","s",":"," ","<","c","o","d","e",">">>
    \o LOCAL_IMAGE_PATH
    \o <<"<","/","c","o","d","e",">","<","/","p",">","\n"," "," "," "," ">>)

\* the dict audio_demo hands to json.dumps
audio_demo_instr ==
  Obj(<< <<<<"q","u","e","s","t","i","o","n">>,
           PyStr(<<"F","e","t","c","h"," ","t","h","e"," ","a","u","d","i","o"," ","f","i","l","e"," ",
             "a","t"," ","t","h","e"," ","g","i","v","e","n"," ","l","i","n","k"," ","a","n","d",
             " ","t","r","a","n","s","c","r","i","b","e"," ","i","t","s"," ","n","u","m","b","e",
             "r","s",","," ","s","u","m"," ","t","h","e","m"," ","a","n","d"," ","P","O","S","T",
             ".">>)>>,
         <<<<"a","u","d","i","o","_","d","a","t","a","_","u","r","i">>,
           PyStr(<<"d","a","t","a",":","a","u","d","i","o","/","w","a","v",";","b","a","s","e","6","4",
             ",">>
               \o b64encode(encode_utf8(<<"S","I","M","U","L","A","T","E","D"," ","A","U","D","I","O",":"," ","n","u","m",
                 "b","e","r","s"," ","3"," ","4"," ","5">>)))>>,
         <<<<"s","u","b","m","i","t","_","u","r","l">>, PyStr(<<"/","f","a","k","e","-","s","u","b","m","i","t">>)>>,
         <<<<"s","u","b","m","i","t","_","p","a","y","l","o","a","d","_","t","e","m","p","l","a",
           "t","e">>,
           PayloadTemplate(<<"h","t","t","p",":","/","/","l","o","c","a","l","h","o","s","t",":","8","0","0","1",
             "/","a","u","d","i","o","-","d","e","m","o">>, <<"<","s","u","m",">">>)>> >>)

audio_demo_s == wrap_atob(json_dumps(audio_demo_instr, 2))

audio_demo(g) ==
  HTMLResponse(
    <<"\n"," "," "," "," ","<","d","i","v"," ","i","d","=","\"","r","e","s","u","l","t","\"",">",
      "<","/","d","i","v",">","\n"," "," "," "," ","<","s","c","r","i","p","t",">","\n">>
    \o <<" "," "," "," "," "," ","d","o","c","u","m","e","n","t",".","q","u","e","r","y","S","e","l",
      "e","c","t","o","r","(","\"","#","r","e","s","u","l","t","\"",")",".","i","n","n","e","r",
      "H","T","M","L"," ","="," ","a","t","o","b","(","GRAVE">>
    \o audio_demo_s
    \o <<"GRAVE",")",";","\n"," "," "," "," ","<","/","s","c","r","i","p","t",">","\n">>
    \o <<" "," "," "," ","<","p",">","N","o","t","e",":"," ","e","x","p","e","c","t","e","d"," ","a",
      "n","s","w","e","r"," ","f","o","r"," ","d","e","m","o"," ","="," ","<","s","t","r","o","n",
      "g",">">>
    \o IntToStr(g.AUDIO_ANSWER)
    \o <<"<","/","s","t","r","o","n","g",">","<","/","p",">","\n"," "," "," "," ">>)

\* gzip.compress(js): not modelled.  Its bytes depend on the time of the call (the
\* header's mtime) and on zlib; the page only base64-encodes them.  One output per
\* length modulo 3, each starting with the gzip magic 1f 8b 08 00.
GzipOutputs ==
  { <<31, 139, 8, 0, 17, 34, 51, 68, 2, 255, 171, 86, 202>>,
    <<31, 139, 8, 0, 18, 34, 51, 68, 2, 255, 171, 86, 202, 204>>,
    <<31, 139, 8, 0, 19, 34, 51, 68, 2, 255, 171, 86, 202, 204, 43>> }

\* the text puzzle_demo formats around gz_b64
puzzle_demo_instr(gz_b64) ==
  <<"\n"," "," "," "," ","{","\n"," "," "," "," "," "," ","\"","p","a","y","l","o","a","d","_",
    "g","z","_","b","6","4","\"",":"," ","\"">> \o gz_b64 \o <<"\"",",","\n">>
  \o <<" "," "," "," "," "," ","\"","h","i","n","t","\"",":"," ","\"","b","a","s","e","6","4"," ",
    "o","f"," ","g","z","i","p","p","e","d"," ","J","S","O","N",";"," ","d","e","c","o","d","e",
    " ","a","n","d"," ","g","u","n","z","i","p"," ","t","o"," ","r","e","v","e","a","l"," ","s",
    "e","c","r","e","t","_","s","u","m","\"",",","\n">>
  \o <<" "," "," "," "," "," ","\"","s","u","b","m","i","t","_","u","r","l","\"",":"," ","\"","/",
    "f","a","k","e","-","s","u","b","m","i","t","\"",",","\n">>
  \o <<" "," "," "," "," "," ","\"","s","u","b","m","i","t","_","p","a","y","l","o","a","d","_","t",
    "e","m","p","l","a","t","e","\"",":"," ","{"," ","\"","e","m","a","i","l","\"",":","\"","<",
    "e","m","a","i","l",">","\"",","," ","\"","s","e","c","r","e","t","\"",":","\"","<","s","e",
    "c","r","e","t",">","\"",","," ","\"","u","r","l","\"",":","\"","h","t","t","p",":","/","/",
    "l","o","c","a","l","h","o","s","t",":","8","0","0","1","/","p","u","z","z","l","e","-","d",
    "e","m","o","\"",","," ","\"","a","n","s","w","e","r","\"",":","\"","<","s","e","c","r","e",
    "t","_","s","u","m",">","\""," ","}","\n">>
  \o <<" "," "," "," ","}","\n"," "," "," "," ">>

\* s of puzzle_demo, for each output of gzip.compress
puzzle_demo_s == {wrap_atob(puzzle_demo_instr(b64encode(gz))) : gz \in GzipOutputs}

puzzle_demo(g, s) ==
  HTMLResponse(
    <<"\n"," "," "," "," ","<","d","i","v"," ","i","d","=","\"","r","e","s","u","l","t","\"",">",
      "<","/","d","i","v",">","\n"," "," "," "," ","<","s","c","r","i","p","t",">","\n">>
    \o <<" "," "," "," "," "," ","/","/"," ","n","e","s","t","e","d"," ","a","t","o","b"," ","t","o",
      " ","m","i","m","i","c"," ","o","b","f","u","s","c","a","t","i","o","n","\n">>
    \o <<" "," "," "," "," "," ","d","o","c","u","m","e","n","t",".","q","u","e","r","y","S","e","l",
      "e","c","t","o","r","(","\"","#","r","e","s","u","l","t","\"",")",".","i","n","n","e","r",
      "H","T","M","L"," ","="," ","a","t","o","b","(","GRAVE">>
    \o s
    \o <<"GRAVE",")",";","\n"," "," "," "," ","<","/","s","c","r","i","p","t",">","\n">>
    \o <<" "," "," "," ","<","p",">","N","o","t","e",":"," ","e","x","p","e","c","t","e","d"," ","a",
      "n","s","w","e","r"," ","f","o","r"," ","d","e","m","o"," ","="," ","<","s","t","r","o","n",
      "g",">">>
    \o IntToStr(g.PUZZLE_ANSWER)
    \o <<"<","/","s","t","r","o","n","g",">","<","/","p",">","\n"," "," "," "," ">>)

local_path_info == JSONResponse([local_image_path |-> PyStr(LOCAL_IMAGE_PATH)], 200)

---------------------------------------------------------------------------
(* The server and its clients *)

Request(method, path, body) == [method |-> method, path |-> path, body |-> body]

NoRequest == Request("", << >>, None)
NoResponse == [status |-> 0, kind |-> "none", body |-> None]

Init ==
  /\ globals = ModuleGlobals
  /\ req = NoRequest
  /\ resp = NoResponse
  /\ chainUrl = None
  /\ graded = << >>

\* GET of each page route
GetRoot ==
  /\ req' = Request("GET", <<"/">>, None)
  /\ resp' = root
  /\ UNCHANGED <<globals, chainUrl, graded>>

GetPdfDemo ==
  /\ req' = Request("GET", <<"/","p","d","f","-","d","e","m","o">>, None)
  /\ resp' = pdf_demo
  /\ UNCHANGED <<globals, chainUrl, graded>>

GetImageDemo ==
  /\ req' = Request("GET", <<"/","i","m","a","g","e","-","d","e","m","o">>, None)
  /\ resp' = image_demo(globals)
  /\ UNCHANGED <<globals, chainUrl, graded>>

GetAudioDemo ==
  /\ req' = Request("GET", <<"/","a","u","d","i","o","-","d","e","m","o">>, None)
  /\ resp' = audio_demo(globals)
  /\ UNCHANGED <<globals, chainUrl, graded>>

\* gzip.compress yields one of its outputs
GetPuzzleDemo ==
  \E s \in puzzle_demo_s :
      /\ req' = Request("GET", <<"/","p","u","z","z","l","e","-","d","e","m","o">>, None)
      /\ resp' = puzzle_demo(globals, s)
      /\ UNCHANGED <<globals, chainUrl, graded>>

GetLocalPathInfo ==
  /\ req' = Request("GET", <<"/","l","o","c","a","l","-","p","a","t","h","-","i","n","f","o">>, None)
  /\ resp' = local_path_info
  /\ UNCHANGED <<globals, chainUrl, graded>>

\* POST /fake-submit with any body of the model
PostFakeSubmit ==
  \E body \in Bodies :
    LET r == fake_submit(globals, body)
    IN /\ req' = Request("POST", <<"/","f","a","k","e","-","s","u","b","m","i","t">>, body)
       /\ resp' = r.response
       /\ globals' = r.globals
       /\ UNCHANGED <<chainUrl, graded>>

\* The chain client reads the pdf page it has just fetched and takes the url of its
\* submit_payload_template as the first stage url.
ClientStart ==
  /\ chainUrl = None /\ graded = << >>
  /\ req.method = "GET" /\ req.path = <<"/","p","d","f","-","d","e","m","o">>
  /\ LET d == DecodedInstructions(resp.body)
     IN /\ d.ok
        /\ HasKey(d.val, <<"s","u","b","m","i","t","_","p","a","y","l","o","a","d","_","t","e","m","p","l","a","t",
          "e">>)
        /\ HasKey(Member(d.val, <<"s","u","b","m","i","t","_","p","a","y","l","o","a","d","_","t","e","m","p","l","a","t",
          "e">>), <<"u","r","l">>)
        /\ chainUrl' = Member(Member(d.val, <<"s","u","b","m","i","t","_","p","a","y","l","o","a","d","_","t","e","m","p","l","a","t",
          "e">>), <<"u","r","l">>)
  /\ UNCHANGED <<globals, req, resp, graded>>

\* the answers the chain client tries
ClientAnswers == {PyStr(<<"6","0">>), PyStr(<<"7","7","7">>), PyStr(<<"1","2">>), PyStr(<<"4","2">>), PyStr(<<"7">>)}

\* The chain client submits an answer for its current stage url; on correct it moves to
\* the url of the verdict, otherwise it stays and may try again.
ClientSubmit ==
  /\ chainUrl # None
  /\ \E answer \in ClientAnswers :
       LET body == Submission(GoodEmail, GoodSecret, chainUrl, answer)
           r == fake_submit(globals, body)
           passed == r.response.kind = "json" /\ r.response.body.correct
       IN /\ req' = Request("POST", <<"/","f","a","k","e","-","s","u","b","m","i","t">>, body)
          /\ resp' = r.response
          /\ globals' = r.globals
          /\ graded' = IF passed THEN Append(graded, Dispatch(globals, chainUrl.v).stage)
                         ELSE graded
          /\ chainUrl' = IF passed THEN r.response.body.url ELSE chainUrl

Next ==
  \/ GetRoot
  \/ GetPdfDemo
  \/ GetImageDemo
  \/ GetAudioDemo
  \/ GetPuzzleDemo
  \/ GetLocalPathInfo
  \/ PostFakeSubmit
  \/ ClientStart
  \/ ClientSubmit

Spec == Init /\ [][Next]_vars

---------------------------------------------------------------------------
(* The stages as the specification names them *)

Stages == {"pdf", "image", "audio", "puzzle"}
StageOrder == <<"pdf", "image", "audio", "puzzle">>
StageIndex(s) == CHOOSE i \in 1..4 : StageOrder[i] = s

StagePath ==
  [pdf |-> <<"/","p","d","f","-","d","e","m","o">>, image |-> <<"/","i","m","a","g","e","-","d","e","m","o">>, audio |-> <<"/","a","u","d","i","o","-","d","e","m","o">>,
   puzzle |-> <<"/","p","u","z","z","l","e","-","d","e","m","o">>]

StageExpected == [pdf |-> 60, image |-> 777, audio |-> 12, puzzle |-> 42]

BaseUrl == <<"h","t","t","p",":","/","/","l","o","c","a","l","h","o","s","t",":","8","0","0","1">>
StageUrl(s) == BaseUrl \o StagePath[s]

\* the full URL of the stage after s, null after the last
SuccessorUrl(s) ==
  IF StageIndex(s) = 4 THEN None ELSE PyStr(StageUrl(StageOrder[StageIndex(s) + 1]))

\* the first stage, in the order pdf, image, audio, puzzle, whose path ends the text u
FirstStage(u) ==
  StageOrder[CHOOSE i \in 1..4 :
               /\ endswith(u, StagePath[StageOrder[i]])
               /\ \A j \in 1..(i - 1) : ~endswith(u, StagePath[StageOrder[j]])]

---------------------------------------------------------------------------
(* The request and the response of a state, as the claims speak of them *)

IsSubmit == req.method = "POST"
IsMapping == IsSubmit /\ req.body.t = "dict"
HasField(k) == k \in DOMAIN req.body.v
Field(k) == IF HasField(k) THEN req.body.v[k] ELSE None

PassesPresence ==
  IsMapping /\ Truthy(Field("email")) /\ Truthy(Field("secret")) /\ Truthy(Field("url"))
UrlIsText == IsMapping /\ Field("url").t = "str"
OnStage(s) == PassesPresence /\ UrlIsText /\ endswith(Field("url").v, StagePath[s])
OnNoStage == PassesPresence /\ UrlIsText /\ \A s \in Stages : ~OnStage(s)

AnswerParses == Field("answer") # None /\ float(Field("answer")).ok
ParsesTo(n) == AnswerParses /\ float(Field("answer")).val = Fin(FALSE, n, 0)

\* the parsed answer lies within 1e-6 of the integer n >= 1
WithinTolerance(n) ==
  /\ AnswerParses
  /\ LET x == float(Field("answer")).val
         tol == FracUnits \div 1000000
     IN /\ x.k = "fin" /\ ~x.neg
        /\ \/ x.w = n /\ x.f < tol
           \/ x.w = n - 1 /\ x.f > FracUnits - tol

IsJson200 == resp.kind = "json" /\ resp.status = 200
IsVerdict(correct, reason, url) ==
  IsJson200 /\ resp.body = [correct |-> correct, reason |-> reason, url |-> url]

---------------------------------------------------------------------------
(* C1 *)

\* C1: on each stage, a submission that passes presence validation and whose answer
\* parses to the expected value gets correct = true, reason "" and the successor URL
\* (null on puzzle).
C1_CorrectVerdict ==
  \A s \in Stages :
    OnStage(s) /\ ParsesTo(StageExpected[s]) => IsVerdict(TRUE, "", SuccessorUrl(s))

C1_Witness ==
  /\ OnStage("audio") /\ ParsesTo(12) /\ Field("answer").t = "str"
  /\ IsVerdict(TRUE, "", PyStr(StageUrl("puzzle")))

---------------------------------------------------------------------------
(* C2 *)

\* C2: malformed JSON is answered 400, and every other body is answered 200 with a
\* verdict carrying correct and reason; no request ends in an unhandled error.
C2_OnlyMalformedIsHard ==
  IsSubmit =>
    IF req.body = Malformed THEN resp.status = 400
    ELSE /\ IsJson200
         /\ {"correct", "reason"} \subseteq DOMAIN resp.body
         /\ ~resp.body.correct => resp.body.reason # ""

---------------------------------------------------------------------------
(* C3 *)

\* C3: a submission with no url key gets 200, correct = false, a "missing" reason, and
\* a url field that is present and null.
C3_MissingUrlVerdict ==
  IsMapping /\ ~HasField("url") =>
    /\ IsJson200
    /\ DOMAIN resp.body = {"correct", "reason", "url"}
    /\ ~resp.body.correct
    /\ resp.body.reason \in {"missing url", "missing fields"}
    /\ resp.body.url = None

---------------------------------------------------------------------------
(* C4 *)

\* C4 as stated: an answer that cannot be parsed gets reason "not numeric" with the
\* successor URL, and "Wrong answer" is only returned for an answer that parsed.
C4_NotNumericReason ==
  \A s \in Stages :
    OnStage(s) =>
      /\ ~AnswerParses => IsVerdict(FALSE, "not numeric", SuccessorUrl(s))
      /\ IsJson200 /\ resp.body.reason = "Wrong answer" => AnswerParses

\* C4 amended: an answer that cannot be parsed (non-numeric text, a list, no answer)
\* gets correct = false, reason "Wrong answer" and the successor URL; no response
\* carries the reason "not numeric".
C4_UnparsableIsWrongAnswer ==
  /\ \A s \in Stages :
       OnStage(s) /\ ~AnswerParses => IsVerdict(FALSE, "Wrong answer", SuccessorUrl(s))
  /\ IsSubmit /\ IsJson200 => resp.body.reason # "not numeric"

C4_Witness ==
  /\ OnStage("pdf") /\ Field("answer") = PyStr(<<"s","i","x","t","y">>)
  /\ IsVerdict(FALSE, "Wrong answer", PyStr(StageUrl("image")))

---------------------------------------------------------------------------
(* C5 *)

\* the verdict came from stage dispatch and grading
IsGraded == IsJson200 /\ resp.body.reason \in {"", "Wrong answer", "unknown url"}

C5_WitnessRejected ==
  /\ UrlIsText /\ Truthy(Field("url")) /\ HasField("answer")
  /\ ~HasField("email") /\ ~HasField("secret")
  /\ IsJson200 /\ resp.body.reason = "missing fields"

---------------------------------------------------------------------------
(* C6 *)

\* C6 as stated: an answer that parses to a number different from the expected value
\* gets correct = false, reason "Wrong answer" and the successor URL.
C6_DifferentIsWrong ==
  \A s \in Stages :
    OnStage(s) /\ AnswerParses /\ ~ParsesTo(StageExpected[s])
    => IsVerdict(FALSE, "Wrong answer", SuccessorUrl(s))

\* C6 amended: an answer that parses to a number not within 1e-6 of the expected
\* value (nan and infinities included) gets correct = false, reason "Wrong answer"
\* and the successor URL, the URL a correct answer gets; a number within 1e-6 of the
\* expected value is graded correct.
C6_OutOfToleranceIsWrong ==
  \A s \in Stages :
    OnStage(s) /\ AnswerParses =>
      IF WithinTolerance(StageExpected[s])
      THEN IsVerdict(TRUE, "", SuccessorUrl(s))
      ELSE IsVerdict(FALSE, "Wrong answer", SuccessorUrl(s))

C6_Witness ==
  /\ OnStage("pdf") /\ Field("answer") = PyStr(<<"5","9">>)
  /\ IsVerdict(FALSE, "Wrong answer", PyStr(StageUrl("image")))

---------------------------------------------------------------------------
(* C7 *)

\* C7: a url text that ends with no stage path gets correct = false, reason
\* "unknown url", url null, whatever the answer; a url that ends with a stage path is
\* graded as the first stage, in the order pdf, image, audio, puzzle, whose path ends it.
C7_Dispatch ==
  /\ OnNoStage => IsVerdict(FALSE, "unknown url", None)
  /\ \A s \in Stages :
       OnStage(s) =>
         LET first == FirstStage(Field("url").v)
         IN /\ IsJson200
            /\ resp.body.reason \in {"", "Wrong answer"}
            /\ resp.body.url = SuccessorUrl(first)
            /\ resp.body.correct <=> WithinTolerance(StageExpected[first])

C7_Witness ==
  /\ OnNoStage /\ ParsesTo(60)
  /\ Field("url") = PyStr(<<"h","t","t","p",":","/","/","l","o","c","a","l","h","o","s","t",":","8","0","0","1","/","p",
    "d","f","-","d","e","m","o","/">>)
  /\ IsVerdict(FALSE, "unknown url", None)

C7_WitnessTwoPaths ==
  /\ OnStage("audio") /\ Field("url") = PyStr(<<"h","t","t","p",":","/","/","l","o","c","a","l","h","o","s","t",":","8","0","0","1","/","i",
    "m","a","g","e","-","d","e","m","o","/","a","u","d","i","o","-","d","e","m","o">>)
  /\ ParsesTo(12) /\ IsVerdict(TRUE, "", PyStr(StageUrl("puzzle")))

---------------------------------------------------------------------------
(* C8 *)

\* C8: after any sequence of page fetches and submissions the stage answers are the
\* ones the process started with, and the response to a submission is the response a
\* fresh server gives to it.
C8_Stateless ==
  /\ globals = ModuleGlobals
  /\ IsSubmit => resp = fake_submit(ModuleGlobals, req.body).response

\* a correct pdf submission replayed after the chain client has passed three stages
C8_Witness ==
  /\ Len(graded) >= 3
  /\ OnStage("pdf") /\ ParsesTo(60)
  /\ IsVerdict(TRUE, "", PyStr(StageUrl("image")))

---------------------------------------------------------------------------
(* C9 *)

IsPrefix(s, t) == Len(s) <= Len(t) /\ SubSeq(t, 1, Len(s)) = s

\* C9: the chain client is graded for pdf, image, audio, puzzle in that order, every
\* url it is handed is recognised by the grader as the next stage, after the fourth
\* correct submission its url is null, and no verdict names the same or an earlier
\* stage than the one submitted.
C9_LinearChain ==
  /\ IsPrefix(graded, StageOrder)
  /\ chainUrl # None =>
       /\ Len(graded) < 4
       /\ Dispatch(globals, chainUrl.v).stage = StageOrder[Len(graded) + 1]
  /\ Len(graded) = 4 => chainUrl = None
  /\ graded # << >> /\ chainUrl = None => Len(graded) = 4
  /\ \A s \in Stages :
       OnStage(s) /\ IsJson200 /\ "url" \in DOMAIN resp.body /\ resp.body.url # None =>
         LET to == Dispatch(globals, resp.body.url.v).stage
             from == Dispatch(globals, Field("url").v).stage
         IN to \in Stages /\ StageIndex(to) = StageIndex(from) + 1

C9_Witness ==
  /\ graded = StageOrder /\ chainUrl = None
  /\ OnStage("puzzle") /\ IsVerdict(TRUE, "", None)

---------------------------------------------------------------------------
(* C10 *)

IsStagePage == req.method = "GET" /\ \E s \in Stages : req.path = StagePath[s]
Instructions == DecodedInstructions(resp.body)

\* the url the grader returns for a correct submission to stage s
GraderNextUrl(s) ==
  fake_submit_response(
    globals,
    Submission(GoodEmail, GoodSecret, PyStr(StageUrl(s)), PyInt(StageExpected[s]))).body.url

\* C10 as stated: the decoded instructions have a url field equal to the canonical URL
\* of the stage, and a submit_url field.
C10_InstructionsUrlField ==
  IsStagePage =>
    /\ Instructions.ok
    /\ HasKey(Instructions.val, <<"u","r","l">>)
    /\ Member(Instructions.val, <<"u","r","l">>) = PyStr(BaseUrl \o req.path)
    /\ HasKey(Instructions.val, <<"s","u","b","m","i","t","_","u","r","l">>)

\* C10 amended: the decoded instructions have a submit_url field naming the grading
\* route and a submit_payload_template whose url field is the canonical URL of the
\* stage (there is no url field at the top level), and that URL is the one the grader
\* returns for the stage before it.
C10_TemplateUrl ==
  IsStagePage =>
    /\ Instructions.ok
    /\ ~HasKey(Instructions.val, <<"u","r","l">>)
    /\ HasKey(Instructions.val, <<"s","u","b","m","i","t","_","u","r","l">>)
    /\ Member(Instructions.val, <<"s","u","b","m","i","t","_","u","r","l">>) = PyStr(<<"/","f","a","k","e","-","s","u","b","m","i","t">>)
    /\ HasKey(Instructions.val, <<"s","u","b","m","i","t","_","p","a","y","l","o","a","d","_","t","e","m","p","l","a","t","e">>)
    /\ LET template == Member(Instructions.val, <<"s","u","b","m","i","t","_","p","a","y","l","o","a","d","_","t","e","m","p","l","a","t","e">>)
       IN /\ HasKey(template, <<"u","r","l">>)
          /\ Member(template, <<"u","r","l">>) = PyStr(BaseUrl \o req.path)
          /\ \A s \in Stages \ {"puzzle"} :
               StagePath[StageOrder[StageIndex(s) + 1]] = req.path
               => GraderNextUrl(s) = Member(template, <<"u","r","l">>)

C10_Witness ==
  /\ IsStagePage /\ req.path = <<"/","p","u","z","z","l","e","-","d","e","m","o">>
  /\ Instructions.ok
  /\ Member(Member(Instructions.val, <<"s","u","b","m","i","t","_","p","a","y","l","o","a","d","_","t","e","m","p","l","a","t","e">>), <<"u","r","l">>)
       = GraderNextUrl("audio")

=============================================================================
